---- MODULE Spec2Model ----
(***************************************************************************)
(* Multi-plate EVG monitor (server.js): the in-memory plate registry, the  *)
(* monitoring cycle with its awaits, the cron job and the HTTP handlers.   *)
(*                                                                         *)
(* JavaScript runs every handler and every stretch of an async function    *)
(* between two awaits to completion, so each action below is one such      *)
(* stretch.  Plate objects live in a heap and are named by references: the *)
(* cycle's loop variable keeps its object after the plate has been spliced *)
(* out of the array, and updatePlateStatus looks plates up by their id     *)
(* field, which need not be unique.                                        *)
(***************************************************************************)
EXTENDS Integers, Sequences, FiniteSets, TLC

\* ------------------------------------------------------------- bounds
\* Most plates the registry holds (guards of the add operations).
MaxPlates == 2
\* Most executions of performMonitoringCycle in flight at once (guards).
MaxCycles == 2
\* The clock (Date.now()) runs from 0 to MaxClock.
MaxClock == 1
\* Longest array posted to /api/plates/bulk.
MaxBatch == 2

\* ------------------------------------------------------- program values
\* lastChecked: null, lastCheckTime: null
Absent == -1
\* monitoringState.checkInterval: 15
DefaultInterval == 15

\* One character of String.prototype.toUpperCase.
UpperChar(ch) ==
  CASE ch = "a" -> "A"
    [] ch = "b" -> "B"
    [] OTHER -> ch

\* plateNumber.toUpperCase(): strings are sequences of characters.
ToUpperCase(s) == [i \in DOMAIN s |-> UpperChar(s[i])]

\* !x for a string: the empty string (like a missing field) is falsy.
Falsy(s) == s = <<>>

\* Request inputs.
PlateInputs == {<<>>, <<"a", "1">>, <<"A", "1">>, <<"b", "1">>}
PhoneInputs == {<<>>, <<"5">>}
IntervalInputs == {0, 5}
Entries == PlateInputs \X PhoneInputs

\* An id no plate has (a request for an unknown plate).
NoSuchId == <<>>

\* Names for plate objects; the lowest free one is always taken.
Refs == 1 .. (MaxPlates + MaxCycles + MaxBatch)
Slots == 1 .. MaxCycles

VARIABLES
  now,            \* Date.now()
  plates,         \* monitoringState.plates: the array, as object references
  heap,           \* the plate objects that are still referenced
  isActive,       \* monitoringState.isActive
  checkInterval,  \* monitoringState.checkInterval
  lastCheckTime,  \* monitoringState.lastCheckTime
  jobs,           \* the scheduled tasks cron.schedule has created
  cronJob,        \* let cronJob: index into jobs, 0 for null
  cycles,         \* the executions of performMonitoringCycle
  last,           \* the step just taken: request, response, cycle event
  obs,            \* per plate object: what the cycles did to it (history)
  smsFailed       \* history: some sendSMS call has failed

vars == <<now, plates, heap, isActive, checkInterval, lastCheckTime, jobs,
          cronJob, cycles, last, obs, smsFailed>>

\* ------------------------------------------------------------ helpers
Range(s) == {s[i] : i \in DOMAIN s}

Min(S) == CHOOSE x \in S : \A y \in S : x <= y

\* plates.find(p => p.id === id) / findIndex: index of the first plate of
\* the array with that id, 0 when there is none.
FirstIndex(ps, h, id) ==
  IF \E i \in DOMAIN ps : h[ps[i]].id = id
  THEN Min({i \in DOMAIN ps : h[ps[i]].id = id})
  ELSE 0

IdleCycle == [pc |-> "idle", idx |-> 0, plate |-> 0]

NoStep == [op |-> "none", pn |-> <<>>, ph |-> <<>>, id |-> <<>>, code |-> 0,
           c |-> 0, ref |-> 0, batch |-> <<>>, added |-> <<>>,
           errors |-> <<>>]

\* History of a plate object: alerted, a notification has been sent for it
\* in the current episode (since its last found=false probe or the last
\* start request); res, the result of its latest probe since the last start
\* request.
NoObs == [alerted |-> FALSE, res |-> "none"]

\* Objects still referenced: by the array or by a cycle's loop variable.
Live(ps, cs) == Range(ps) \cup {cs[c].plate : c \in {d \in Slots : cs[d].pc # "idle"}}

Collect(f, ps, cs) == [r \in (DOMAIN f \cap Live(ps, cs)) |-> f[r]]

NewRef(h) == Min(Refs \ DOMAIN h)

\* A new plate that keeps the number as it was typed.
NewPlateRaw(id, pn, ph) ==
  [id |-> id, plateNumber |-> pn, phoneNumber |-> ph,
   status |-> "pending", lastChecked |-> Absent, alertSent |-> FALSE]

\* The object literal of a new plate.
NewPlate(id, pn, ph) ==
  [id |-> id, plateNumber |-> ToUpperCase(pn), phoneNumber |-> ph,
   status |-> "pending", lastChecked |-> Absent, alertSent |-> FALSE]

\* monitoringState.plates.find(p => p.plateNumber.toUpperCase() ===
\*                                  plateNumber.toUpperCase())
PlateExists(ps, h, pn) ==
  \E i \in DOMAIN ps :
    ToUpperCase(h[ps[i]].plateNumber) = ToUpperCase(pn)

\* ------------------------------------------------------------ Init
Init ==
  /\ now = 0
  /\ plates = <<>>
  /\ heap = <<>>
  /\ isActive = FALSE
  /\ checkInterval = DefaultInterval
  /\ lastCheckTime = Absent
  /\ jobs = <<>>
  /\ cronJob = 0
  /\ cycles = [c \in Slots |-> IdleCycle]
  /\ last = NoStep
  /\ obs = <<>>
  /\ smsFailed = FALSE

\* The clock advances between any two steps, or does not: two requests
\* may be handled within the same millisecond.
TimePasses ==
  /\ now < MaxClock
  /\ now' = now + 1
  /\ last' = NoStep
  /\ UNCHANGED <<plates, heap, isActive, checkInterval, lastCheckTime, jobs,
                 cronJob, cycles, obs, smsFailed>>

\* ------------------------------------------------- POST /api/plates/add
Add(pn, ph) ==
  /\ IF Falsy(pn) \/ Falsy(ph) \/ PlateExists(plates, heap, pn)
     THEN /\ last' = [NoStep EXCEPT !.op = "add", !.pn = pn, !.ph = ph,
                                    !.code = 400]
          /\ UNCHANGED <<plates, heap, obs>>
     ELSE /\ Len(plates) < MaxPlates
          /\ LET r == NewRef(heap) IN
               /\ heap' = heap @@ (r :> NewPlate(<<now>>, pn, ph))
               /\ obs' = obs @@ (r :> NoObs)
               /\ plates' = Append(plates, r)
               /\ last' = [NoStep EXCEPT !.op = "add", !.pn = pn, !.ph = ph,
                                         !.code = 200, !.ref = r]
  /\ UNCHANGED <<now, isActive, checkInterval, lastCheckTime, jobs, cronJob,
                 cycles, smsFailed>>

\* --------------------------------------------- DELETE /api/plates/:id
Remove(id) ==
  LET plateIndex == FirstIndex(plates, heap, id) IN
  /\ IF plateIndex = 0
     THEN /\ last' = [NoStep EXCEPT !.op = "remove", !.id = id, !.code = 404]
          /\ UNCHANGED <<plates, heap, obs>>
     ELSE LET ps == SubSeq(plates, 1, plateIndex - 1)
                    \o SubSeq(plates, plateIndex + 1, Len(plates)) IN
          /\ plates' = ps
          /\ heap' = Collect(heap, ps, cycles)
          /\ obs' = Collect(obs, ps, cycles)
          /\ last' = [NoStep EXCEPT !.op = "remove", !.id = id, !.code = 200,
                                    !.ref = plates[plateIndex]]
  /\ UNCHANGED <<now, isActive, checkInterval, lastCheckTime, jobs, cronJob,
                 cycles, smsFailed>>

\* ------------------------------------------------ PUT /api/plates/:id
Update(id, pn, ph) ==
  LET i == FirstIndex(plates, heap, id) IN
  /\ IF i = 0
     THEN /\ last' = [NoStep EXCEPT !.op = "update", !.id = id, !.pn = pn,
                                    !.ph = ph, !.code = 404]
          /\ UNCHANGED heap
     ELSE LET r == plates[i]
              p1 == IF Falsy(pn) THEN heap[r]
                    ELSE [heap[r] EXCEPT !.plateNumber = ToUpperCase(pn)]
              p2 == IF Falsy(ph) THEN p1 ELSE [p1 EXCEPT !.phoneNumber = ph]
          IN /\ heap' = [heap EXCEPT ![r] = p2]
             /\ last' = [NoStep EXCEPT !.op = "update", !.id = id, !.pn = pn,
                                       !.ph = ph, !.code = 200, !.ref = r]
  /\ UNCHANGED <<now, plates, isActive, checkInterval, lastCheckTime, jobs,
                 cronJob, cycles, obs, smsFailed>>

\* ------------------------------------------------ POST /api/plates/bulk
\* Math.random(): a value that, appended to Date.now(), gives an id no
\* object has (two equal draws have probability about 2^-52).
FreshRandom(h) ==
  Min({k \in 1 .. (Cardinality(Refs) + 1) :
         \A r \in DOMAIN h : h[r].id # <<now, k>>})

\* One call of the forEach callback on the state the earlier calls left.
BulkEntry(e, acc) ==
  LET pn == e[1]
      ph == e[2]
  IN IF Falsy(pn) \/ Falsy(ph)
     THEN [acc EXCEPT !.errors =
             Append(@, [plateNumber |-> pn, error |-> "missing"])]
     ELSE IF PlateExists(acc.plates, acc.heap, pn)
     THEN [acc EXCEPT !.errors =
             Append(@, [plateNumber |-> pn, error |-> "exists"])]
     ELSE LET r == NewRef(acc.heap)
              id == <<now, FreshRandom(acc.heap)>>
          IN [plates |-> Append(acc.plates, r),
              heap |-> acc.heap @@ (r :> NewPlate(id, pn, ph)),
              added |-> Append(acc.added, r),
              errors |-> acc.errors]

\* A forEach that gives up at the first rejected entry.
RECURSIVE BulkFoldStop(_, _)
BulkFoldStop(batch, acc) ==
  IF batch = <<>> THEN acc
  ELSE LET nxt == BulkEntry(Head(batch), acc) IN
       IF Len(nxt.errors) > Len(acc.errors)
       THEN [nxt EXCEPT !.errors =
               @ \o [i \in 1 .. (Len(batch) - 1) |->
                       [plateNumber |-> Tail(batch)[i][1], error |-> "skipped"]]]
       ELSE BulkFoldStop(Tail(batch), nxt)

\* plates.forEach(...): the entries in order.
RECURSIVE BulkFold(_, _)
BulkFold(batch, acc) ==
  IF batch = <<>> THEN acc
  ELSE BulkFold(Tail(batch), BulkEntry(Head(batch), acc))

Batches == UNION {[1 .. n -> Entries] : n \in 0 .. MaxBatch}

BulkAdd(batch) ==
  LET out == BulkFold(batch,
                      [plates |-> plates, heap |-> heap, added |-> <<>>,
                       errors |-> <<>>]) IN
  /\ Len(out.plates) <= MaxPlates
  /\ plates' = out.plates
  /\ heap' = out.heap
  /\ obs' = obs @@ [r \in Range(out.added) |-> NoObs]
  /\ last' = [NoStep EXCEPT !.op = "bulk", !.code = 200, !.batch = batch,
                            !.added = out.added, !.errors = out.errors]
  /\ UNCHANGED <<now, isActive, checkInterval, lastCheckTime, jobs, cronJob,
                 cycles, smsFailed>>

\* if (!Array.isArray(plates)) return res.status(400)
BulkAddNotArray ==
  /\ last' = [NoStep EXCEPT !.op = "bulk", !.code = 400]
  /\ UNCHANGED <<now, plates, heap, isActive, checkInterval, lastCheckTime,
                 jobs, cronJob, cycles, obs, smsFailed>>

\* Ids a request can name: those of the registry's plates and an unknown one.
IdInputs == {heap[r].id : r \in Range(plates)} \cup {NoSuchId}

\* ------------------------------------------------- updatePlateStatus
\* Object.assign(plate, updates): the fields named by updates are replaced.
Merge(p, updates) ==
  [f \in DOMAIN p |-> IF f \in DOMAIN updates THEN updates[f] ELSE p[f]]

\* The first plate of the array with this id gets the updates; nothing
\* happens when there is none.
UpdatePlateStatus(h, plateId, updates) ==
  LET i == FirstIndex(plates, h, plateId) IN
  IF i = 0 THEN h ELSE [h EXCEPT ![plates[i]] = Merge(@, updates)]

\* The update objects performMonitoringCycle passes.
CheckingUpdates == [status |-> "checking", lastChecked |-> now]
FoundUpdates == [status |-> "found"]
AlertSentUpdates == [alertSent |-> TRUE]
ClearUpdates == [status |-> "clear", alertSent |-> FALSE]
ErrorUpdates == [status |-> "error"]

\* ------------------------------------------------------- cron jobs
\* A setup that schedules the new task without stopping the current one.
SetupCronJobKeep(intervalMinutes) ==
  [jobs |-> Append(jobs, [interval |-> intervalMinutes, running |-> TRUE]),
   cronJob |-> Len(jobs) + 1]

\* setupCronJob: the current task is stopped and a new one scheduled.  Tasks
\* that are stopped and no longer referenced are dropped from the model.
SetupCronJob(intervalMinutes) ==
  LET stopped == IF cronJob # 0
                 THEN [jobs EXCEPT ![cronJob].running = FALSE]
                 ELSE jobs
      kept == SelectSeq(stopped, LAMBDA j : j.running)
  IN [jobs |-> Append(kept, [interval |-> intervalMinutes, running |-> TRUE]),
      cronJob |-> Len(kept) + 1]

\* --------------------------------------------- performMonitoringCycle
InFlight == {c \in Slots : cycles[c].pc # "idle"}

Quiescent == InFlight = {}

\* An entry that records the time of the call before its check.
CycleEntryStamp(h, act) ==
  IF ~act \/ Len(plates) = 0
  THEN [heap |-> h, cycles |-> cycles, lastCheckTime |-> now, c |-> 0]
  ELSE LET c == Min(Slots \ InFlight)
           r == plates[1]
       IN [heap |-> UpdatePlateStatus(h, h[r].id, CheckingUpdates),
           cycles |-> [cycles EXCEPT ![c] =
                         [pc |-> "probe", idx |-> 1, plate |-> r]],
           lastCheckTime |-> now,
           c |-> c]

\* An entry that does not record the time of the cycle.
CycleEntryNoStamp(h, act) ==
  IF ~act \/ Len(plates) = 0
  THEN [heap |-> h, cycles |-> cycles, lastCheckTime |-> lastCheckTime,
        c |-> 0]
  ELSE LET c == Min(Slots \ InFlight)
           r == plates[1]
       IN [heap |-> UpdatePlateStatus(h, h[r].id, CheckingUpdates),
           cycles |-> [cycles EXCEPT ![c] =
                         [pc |-> "probe", idx |-> 1, plate |-> r]],
           lastCheckTime |-> lastCheckTime,
           c |-> c]

\* performMonitoringCycle() up to its first await, called with the heap h
\* and isActive = act: the early return, or lastCheckTime, the first plate
\* set to checking and the probe started.  c is the execution begun (0: none).
CycleEntry(h, act) ==
  IF ~act \/ Len(plates) = 0
  THEN [heap |-> h, cycles |-> cycles, lastCheckTime |-> lastCheckTime,
        c |-> 0]
  ELSE LET c == Min(Slots \ InFlight)
           r == plates[1]
       IN [heap |-> UpdatePlateStatus(h, h[r].id, CheckingUpdates),
           cycles |-> [cycles EXCEPT ![c] =
                         [pc |-> "probe", idx |-> 1, plate |-> r]],
           lastCheckTime |-> now,
           c |-> c]

\* A loop whose iterator does not advance: the same index is taken again.
NextPlateStay(c, h) ==
  LET i == cycles[c].idx IN
  IF i <= Len(plates)
  THEN LET r == plates[i] IN
       [heap |-> UpdatePlateStatus(h, h[r].id, CheckingUpdates),
        cyc |-> [pc |-> "probe", idx |-> i, plate |-> r]]
  ELSE [heap |-> h, cyc |-> IdleCycle]

\* The for-of loop's next step for execution c on heap h: the array
\* iterator yields the element at its index, if the array (as it is now)
\* has one, and the plate is set to checking; otherwise the cycle ends.
NextPlate(c, h) ==
  LET i == cycles[c].idx IN
  IF i < Len(plates)
  THEN LET r == plates[i + 1] IN
       [heap |-> UpdatePlateStatus(h, h[r].id, CheckingUpdates),
        cyc |-> [pc |-> "probe", idx |-> i + 1, plate |-> r]]
  ELSE [heap |-> h, cyc |-> IdleCycle]

\* History: a probe of plate object p has returned result.
ObsProbe(o, p, result) ==
  [o EXCEPT ![p].res = result,
            ![p].alerted = IF result = "clear" THEN FALSE ELSE @]

\* History: a notification for plate object p has been sent.
ObsSent(o, p) == [o EXCEPT ![p].alerted = TRUE]

\* The cron callback: if (monitoringState.isActive) performMonitoringCycle()
Tick ==
  /\ \E j \in DOMAIN jobs : jobs[j].running
  /\ (isActive /\ Len(plates) > 0) => Slots \ InFlight # {}
  /\ LET e == CycleEntry(heap, isActive) IN
       /\ heap' = e.heap
       /\ cycles' = e.cycles
       /\ lastCheckTime' = e.lastCheckTime
       /\ last' = [NoStep EXCEPT !.op = "tick", !.c = e.c]
  /\ UNCHANGED <<now, plates, isActive, checkInterval, jobs, cronJob, obs,
                 smsFailed>>

\* ---------------------------------------- POST /api/monitoring/start
Start(interval) ==
  IF Len(plates) = 0
  THEN /\ last' = [NoStep EXCEPT !.op = "start", !.code = 400]
       /\ UNCHANGED <<now, plates, heap, isActive, checkInterval,
                      lastCheckTime, jobs, cronJob, cycles, obs, smsFailed>>
  ELSE /\ Slots \ InFlight # {}
       /\ isActive' = TRUE
       /\ checkInterval' = IF interval # 0 THEN interval ELSE checkInterval
       /\ LET reset == [r \in DOMAIN heap |->
                         IF r \in Range(plates)
                         THEN [heap[r] EXCEPT !.alertSent = FALSE,
                                              !.status = "pending"]
                         ELSE heap[r]]
              job == SetupCronJob(checkInterval')
              e == CycleEntry(reset, TRUE)
          IN /\ jobs' = job.jobs
             /\ cronJob' = job.cronJob
             /\ heap' = e.heap
             /\ cycles' = e.cycles
             /\ lastCheckTime' = e.lastCheckTime
             /\ last' = [NoStep EXCEPT !.op = "start", !.code = 200,
                                       !.c = e.c]
       /\ obs' = [r \in DOMAIN obs |-> NoObs]
       /\ UNCHANGED <<now, plates, smsFailed>>

\* ----------------------------------------- POST /api/monitoring/stop
Stop ==
  /\ isActive' = FALSE
  /\ jobs' = IF cronJob # 0 THEN [jobs EXCEPT ![cronJob].running = FALSE]
             ELSE jobs
  /\ last' = [NoStep EXCEPT !.op = "stop", !.code = 200]
  /\ UNCHANGED <<now, plates, heap, checkInterval, lastCheckTime, cronJob,
                 cycles, obs, smsFailed>>

\* --------------------------------- the cycle's continuations (awaits)
\* The loop moves on from heap h and history o: next plate or the end.
Continue(c, h, o, event) ==
  LET n == NextPlate(c, h) IN
  /\ cycles' = [cycles EXCEPT ![c] = n.cyc]
  /\ heap' = Collect(n.heap, plates, cycles')
  /\ obs' = Collect(o, plates, cycles')
  /\ last' = [NoStep EXCEPT !.op = event, !.c = c, !.ref = cycles[c].plate]

\* await checkEVGForPlate(...) resolves with found.
ProbeReturns(c, found) ==
  LET p == cycles[c].plate IN
  /\ cycles[c].pc = "probe"
  /\ IF found /\ ~heap[p].alertSent
     THEN /\ heap' = UpdatePlateStatus(heap, heap[p].id, FoundUpdates)
          /\ cycles' = [cycles EXCEPT ![c].pc = "sms"]
          /\ obs' = ObsProbe(obs, p, "found")
     ELSE IF found /\ heap[p].alertSent
     THEN /\ heap' = UpdatePlateStatus(heap, heap[p].id, FoundUpdates)
          /\ cycles' = [cycles EXCEPT ![c].pc = "delay"]
          /\ obs' = ObsProbe(obs, p, "found")
     ELSE /\ heap' = UpdatePlateStatus(heap, heap[p].id, ClearUpdates)
          /\ cycles' = [cycles EXCEPT ![c].pc = "delay"]
          /\ obs' = ObsProbe(obs, p, "clear")
  /\ last' = [NoStep EXCEPT !.op = IF found THEN "probeFound"
                                   ELSE "probeClear",
                            !.c = c, !.ref = p]
  /\ UNCHANGED <<now, plates, isActive, checkInterval, lastCheckTime, jobs,
                 cronJob, smsFailed>>

\* await checkEVGForPlate(...) rejects: the catch block, then the loop.
ProbeFails(c) ==
  LET p == cycles[c].plate IN
  /\ cycles[c].pc = "probe"
  /\ Continue(c, UpdatePlateStatus(heap, heap[p].id, ErrorUpdates),
              ObsProbe(obs, p, "fail"), "probeFail")
  /\ UNCHANGED <<now, plates, isActive, checkInterval, lastCheckTime, jobs,
                 cronJob, smsFailed>>

\* await sendSMS(...) resolves.
SmsSucceeds(c) ==
  LET p == cycles[c].plate IN
  /\ cycles[c].pc = "sms"
  /\ heap' = UpdatePlateStatus(heap, heap[p].id, AlertSentUpdates)
  /\ cycles' = [cycles EXCEPT ![c].pc = "delay"]
  /\ obs' = ObsSent(obs, p)
  /\ last' = [NoStep EXCEPT !.op = "smsOk", !.c = c, !.ref = p]
  /\ UNCHANGED <<now, plates, isActive, checkInterval, lastCheckTime, jobs,
                 cronJob, smsFailed>>

\* await sendSMS(...) rejects: the catch block, then the loop.
SmsFails(c) ==
  LET p == cycles[c].plate IN
  /\ cycles[c].pc = "sms"
  /\ smsFailed' = TRUE
  /\ Continue(c, UpdatePlateStatus(heap, heap[p].id, ErrorUpdates), obs,
              "smsFail")
  /\ UNCHANGED <<now, plates, isActive, checkInterval, lastCheckTime, jobs,
                 cronJob>>

\* The 3000 ms timer between plates fires.
DelayElapses(c) ==
  /\ cycles[c].pc = "delay"
  /\ Continue(c, heap, obs, "delay")
  /\ UNCHANGED <<now, plates, isActive, checkInterval, lastCheckTime, jobs,
                 cronJob, smsFailed>>

CycleStep ==
  \E c \in Slots :
    \/ \E found \in BOOLEAN : ProbeReturns(c, found)
    \/ ProbeFails(c)
    \/ SmsSucceeds(c)
    \/ SmsFails(c)
    \/ DelayElapses(c)

\* -------------------------------------------------- the registry alone
NextReg ==
  \/ TimePasses
  \/ \E pn \in PlateInputs, ph \in PhoneInputs : Add(pn, ph)
  \/ \E id \in IdInputs : Remove(id)
  \/ \E id \in IdInputs, pn \in PlateInputs, ph \in PhoneInputs :
       Update(id, pn, ph)
  \/ \E batch \in Batches : BulkAdd(batch)
  \/ BulkAddNotArray

SpecReg == Init /\ [][NextReg]_vars

\* performMonitoringCycle() called directly, whatever isActive is (the cron
\* callback is the call under `if (monitoringState.isActive)`).
RunCycle ==
  /\ (isActive /\ Len(plates) > 0) => Slots \ InFlight # {}
  /\ LET e == CycleEntry(heap, isActive) IN
       /\ heap' = e.heap
       /\ cycles' = e.cycles
       /\ lastCheckTime' = e.lastCheckTime
       /\ last' = [NoStep EXCEPT !.op = "run", !.c = e.c]
  /\ UNCHANGED <<now, plates, isActive, checkInterval, jobs, cronJob, obs,
                 smsFailed>>

\* ---------------------- cycles one after another, requests in between
SeqPlateInputs == {<<"a", "1">>, <<"b", "1">>}

NextSeq ==
  \/ TimePasses
  \/ Quiescent /\ \E pn \in SeqPlateInputs : Add(pn, <<"5">>)
  \/ Quiescent /\ \E interval \in IntervalInputs : Start(interval)
  \/ Quiescent /\ Stop
  \/ Quiescent /\ Tick
  \/ Quiescent /\ \E id \in IdInputs : Remove(id)
  \/ Quiescent /\ RunCycle
  \/ CycleStep

SpecSeq == Init /\ [][NextSeq]_vars

\* ------------------------------------------- monitoring, interleaved
\* Plates are added, monitoring is started and stopped and the cron job
\* ticks while cycles are awaiting their probes, notifications and timers:
\* every order of the handlers and the continuations.
Next ==
  \/ TimePasses
  \/ \E pn \in SeqPlateInputs : Add(pn, <<"5">>)
  \/ \E interval \in IntervalInputs : Start(interval)
  \/ Stop
  \/ Tick
  \/ CycleStep

Spec == Init /\ [][Next]_vars

\* ------------------------------- requests while one cycle is running
\* Arrays of valid entries posted to /api/plates/bulk.
SeqBatches ==
  UNION {[1 .. n -> SeqPlateInputs \X {<<"5">>}] : n \in 1 .. MaxBatch}

\* Plates are added and removed while a cycle is awaiting a probe, a
\* notification or its timer; a start request begins a cycle only when
\* none is in flight.
NextRem ==
  \/ TimePasses
  \/ \E pn \in SeqPlateInputs : Add(pn, <<"5">>)
  \/ \E id \in IdInputs : Remove(id)
  \/ Quiescent /\ Start(0)
  \/ CycleStep

SpecRem == Init /\ [][NextRem]_vars

\* Plates added by bulk requests between cycles and removed at any time.
NextBulkRem ==
  \/ TimePasses
  \/ Quiescent /\ \E batch \in SeqBatches : BulkAdd(batch)
  \/ \E id \in IdInputs : Remove(id)
  \/ Quiescent /\ Start(0)
  \/ CycleStep

SpecBulkRem == Init /\ [][NextBulkRem]_vars

\* The continuations of execution c: each await eventually settles.
StepOf(c) ==
  \/ \E found \in BOOLEAN : ProbeReturns(c, found)
  \/ ProbeFails(c)
  \/ SmsSucceeds(c)
  \/ SmsFails(c)
  \/ DelayElapses(c)

SpecRemFair == SpecRem /\ \A c \in Slots : WF_vars(StepOf(c))

\* ====================================================== the claims
\* The plates of the registry, as objects.
Registry == [i \in DOMAIN plates |-> heap[plates[i]]]

\* C1: for every plate, under any interleaving of ticks, cycle executions
\* and probe outcomes, at most one notification is sent per active-fine
\* episode, as long as every notification call succeeds: no notification is
\* sent for a plate that was already notified in its current episode.
C1_AtMostOneAlertPerEpisode ==
  [][(last'.op = "smsOk" /\ ~smsFailed') => ~obs[last'.ref].alerted]_vars

\* C2: at every moment at most one execution of performMonitoringCycle is
\* in flight; a tick or a start request arriving during a cycle starts no
\* second pass.
C2_NoOverlappingCycles == Cardinality(InFlight) <= 1

\* C3: with cycles one after another and notifications succeeding, a found
\* probe of a plate whose alertSent is false makes one notification call and
\* the cycle ends with the plate found and alertSent true; a found probe in
\* a following cycle makes no call and leaves the plate found and alertSent
\* true.
C3_DedupAcrossCycles ==
  [][~smsFailed' =>
       /\ last'.op = "probeFound" =>
            LET p == last'.ref
                c == last'.c
            IN /\ ~heap[p].alertSent => cycles'[c].pc = "sms"
               /\ obs[p].alerted =>
                    /\ cycles'[c].pc = "delay"
                    /\ heap'[p].status = "found"
                    /\ heap'[p].alertSent
       /\ Quiescent' =>
            \A i \in DOMAIN plates' :
              LET r == plates'[i] IN
                obs'[r].res = "found" =>
                  /\ heap'[r].status = "found"
                  /\ heap'[r].alertSent
                  /\ obs'[r].alerted]_vars

\* C4: a found=false probe sets the plate's status to clear and its
\* alertSent to false whatever it was, so that probe results found, clear,
\* found over three consecutive cycles make two notification calls: one in
\* the first cycle, none in the second, one in the third.
C4_Rearming ==
  [][/\ last'.op = "probeClear" =>
          /\ heap'[last'.ref].status = "clear"
          /\ ~heap'[last'.ref].alertSent
          /\ cycles'[last'.c].pc = "delay"
     /\ (last'.op = "probeFound" /\ obs[last'.ref].res \in {"none", "clear"})
          => cycles'[last'.c].pc = "sms"]_vars

\* C5: after every completed cycle, for all plates of the registry,
\* alertSent is true only if status is found, whatever the probe and
\* notification outcomes were.
C5_AlertOnlyIfFound ==
  Quiescent =>
    \A i \in DOMAIN plates :
      Registry[i].alertSent => Registry[i].status = "found"

\* C6: when the notification call fails for a newly found plate, the plate
\* is left with status found and alertSent false, and the next found probe
\* calls the notification again.
C6_NotificationFailure ==
  [][/\ last'.op = "smsFail" =>
          /\ heap'[last'.ref].status = "found"
          /\ ~heap'[last'.ref].alertSent
     /\ (last'.op = "probeFound" /\ ~heap[last'.ref].alertSent)
          => cycles'[last'.c].pc = "sms"]_vars

\* C7: when the probe fails for a plate, that plate's status becomes error,
\* its alertSent is unchanged, no notification is sent for it, the cycle
\* goes on to the next plate, and it ends with every plate of the registry
\* probed, the failed ones in error and the found ones found.
C7_ProbeFailureContained ==
  [][/\ last'.op = "probeFail" =>
          LET p == last'.ref
              c == last'.c
          IN /\ heap'[p].status = "error"
             /\ heap'[p].alertSent = heap[p].alertSent
             /\ IF cycles[c].idx < Len(plates)
                THEN /\ cycles'[c].pc = "probe"
                     /\ cycles'[c].plate = plates[cycles[c].idx + 1]
                ELSE cycles'[c].pc = "idle"
     /\ (Quiescent' /\ last'.c # 0 /\ ~smsFailed') =>
          \A i \in DOMAIN plates' :
            LET r == plates'[i] IN
              /\ obs'[r].res # "none"
              /\ obs'[r].res = "fail" => heap'[r].status = "error"
              /\ obs'[r].res = "found" => heap'[r].status = "found"]_vars

\* Equal when compared case-insensitively.
SameNumber(x, y) == ToUpperCase(x) = ToUpperCase(y)

\* C8: in every reachable state no two plates of the registry have plate
\* numbers that are equal when compared case-insensitively.
C8_UniquePlateNumbers ==
  \A i, j \in DOMAIN plates :
    i # j => ~SameNumber(Registry[i].plateNumber, Registry[j].plateNumber)

\* C9: add(plateNumber, contact) fails and changes nothing when a field is
\* empty or the number is already tracked (case-insensitively); otherwise it
\* appends exactly one plate, number upper-cased, status pending, alertSent
\* false, lastChecked absent, and modifies no existing plate.
C9_AddContract ==
  [][last'.op = "add" =>
       LET pn == last'.pn
           ph == last'.ph
           tracked == \E i \in DOMAIN plates :
                        SameNumber(Registry[i].plateNumber, pn)
       IN IF pn = <<>> \/ ph = <<>> \/ tracked
          THEN /\ last'.code = 400
               /\ plates' = plates
               /\ heap' = heap
          ELSE /\ last'.code = 200
               /\ Len(plates') = Len(plates) + 1
               /\ SubSeq(plates', 1, Len(plates)) = plates
               /\ \A r \in DOMAIN heap : heap'[r] = heap[r]
               /\ plates'[Len(plates')] \notin DOMAIN heap
               /\ LET p == heap'[plates'[Len(plates')]] IN
                    /\ p.plateNumber = ToUpperCase(pn)
                    /\ \A k \in DOMAIN pn : p.plateNumber[k] \notin {"a", "b"}
                    /\ p.phoneNumber = ph
                    /\ p.status = "pending"
                    /\ p.alertSent = FALSE
                    /\ p.lastChecked = Absent]_vars

\* C9 witness: a second plate was just added and its number was stored in
\* upper case, different from the text of the request.
C9_Witness ==
  /\ last.op = "add"
  /\ last.code = 200
  /\ Len(plates) = 2
  /\ heap[last.ref].plateNumber # last.pn

\* Entry i of a bulk request is rejected: a field is empty, or its number is
\* tracked already, or an earlier valid entry of the batch has the number.
BulkRejected(batch, i) ==
  \/ batch[i][1] = <<>>
  \/ batch[i][2] = <<>>
  \/ \E k \in DOMAIN plates : SameNumber(Registry[k].plateNumber, batch[i][1])
  \/ \E j \in 1 .. (i - 1) :
       /\ batch[j][1] # <<>>
       /\ batch[j][2] # <<>>
       /\ SameNumber(batch[j][1], batch[i][1])

\* The indices of a batch's accepted (rejected) entries, in order.
BulkIndices(batch, rejected) ==
  SelectSeq([i \in 1 .. Len(batch) |-> i],
            LAMBDA i : BulkRejected(batch, i) = rejected)

\* C10: bulkAdd processes the entries in order, each against the registry
\* as extended by the earlier entries: every entry ends in exactly one of
\* added or errors, the second occurrence of a number in a batch is
\* rejected, and a rejected entry does not stop later ones.
C10_BulkContract ==
  [][(last'.op = "bulk" /\ last'.code = 200) =>
       LET batch == last'.batch
           acc == BulkIndices(batch, FALSE)
           rej == BulkIndices(batch, TRUE)
       IN /\ Len(last'.added) + Len(last'.errors) = Len(batch)
          /\ Len(last'.added) = Len(acc)
          /\ Len(last'.errors) = Len(rej)
          /\ plates' = plates \o last'.added
          /\ \A r \in DOMAIN heap : heap'[r] = heap[r]
          /\ \A k \in DOMAIN acc :
               LET p == heap'[last'.added[k]] IN
                 /\ last'.added[k] \notin DOMAIN heap
                 /\ p.plateNumber = ToUpperCase(batch[acc[k]][1])
                 /\ p.phoneNumber = batch[acc[k]][2]
                 /\ p.status = "pending"
                 /\ p.alertSent = FALSE
                 /\ p.lastChecked = Absent
          /\ \A k \in DOMAIN rej :
               last'.errors[k].plateNumber = batch[rej[k]][1]]_vars

\* C10 witness: a batch of two valid entries with the same number in
\* different cases, the first added and the second reported in errors.
C10_Witness ==
  /\ last.op = "bulk"
  /\ Len(last.batch) = 2
  /\ Len(last.added) = 1
  /\ Len(last.errors) = 1
  /\ last.batch[1][1] # <<>>
  /\ last.batch[1][2] # <<>>
  /\ last.batch[1][1] # last.batch[2][1]
  /\ SameNumber(last.batch[1][1], last.batch[2][1])
  /\ plates = last.added

\* The statuses a finished probe leaves.
Resolved == {"clear", "found", "error"}

\* C11: checking is transient.  When a cycle moves on from a plate (after
\* a probe failure, a notification failure or the delay that follows a
\* probe success) that plate, if still in the registry, has status clear,
\* found or error, and whenever no cycle is in flight no plate of the
\* registry has status checking.
C11_CheckingTransient ==
  [][/\ last'.op \in {"probeFail", "smsFail", "delay"} =>
          (last'.ref \in Range(plates') =>
             heap'[last'.ref].status \in Resolved)
     /\ Quiescent' =>
          \A r \in Range(plates') : heap'[r].status # "checking"]_vars

\* C12: when the plate a cycle is processing has been removed while the
\* cycle awaited its probe or notification, the cycle's update for it
\* changes nothing: the registry array is the same, the removed plate is
\* as it was, and no plate of the registry is modified (other than the
\* next plate being set to checking when the loop moves on).
C12_RemovalDuringCycle ==
  [][(/\ last'.op \in {"probeFound", "probeClear", "probeFail", "smsOk",
                       "smsFail"}
      /\ last'.ref \notin Range(plates)) =>
       LET p == last'.ref
           c == last'.c
       IN /\ plates' = plates
          /\ p \in DOMAIN heap' => heap'[p] = heap[p]
          /\ \A r \in Range(plates) :
               \/ heap'[r] = heap[r]
               \/ /\ last'.op \in {"probeFail", "smsFail"}
                  /\ cycles'[c].pc = "probe"
                  /\ cycles'[c].plate = r
                  /\ heap'[r] = Merge(heap[r], CheckingUpdates)]_vars

\* C13: performMonitoringCycle called while isActive is false or the
\* registry is empty returns at once and changes nothing: lastCheckTime,
\* the registry and its plates are as they were and no execution is left
\* awaiting a probe or a notification.
C13_NoOpWhenInactiveOrEmpty ==
  [][(last'.op \in {"run", "tick"} /\ (~isActive \/ Len(plates) = 0)) =>
       /\ last'.c = 0
       /\ lastCheckTime' = lastCheckTime
       /\ plates' = plates
       /\ heap' = heap
       /\ cycles' = cycles
       /\ isActive' = isActive]_vars

\* C13 witness: the function has just returned early with monitoring
\* stopped, plates in the registry and the time of an earlier cycle kept
\* although the clock has moved on.
C13_Witness ==
  /\ last.op = "run"
  /\ last.c = 0
  /\ ~isActive
  /\ Len(plates) > 0
  /\ lastCheckTime # Absent
  /\ lastCheckTime # now

\* C14: a stop request sets isActive to false and leaves no scheduled job
\* running, so that no cycle begins until the next start request; a cycle
\* already running is not aborted: it goes on to probe every remaining
\* plate, applies each plate's status transition and sends the
\* notifications they require.
C14_StopDoesNotAbort ==
  [][/\ last'.op = "stop" =>
          /\ ~isActive'
          /\ \A j \in DOMAIN jobs' : ~jobs'[j].running
          /\ cycles' = cycles
     /\ (~isActive /\ last'.op # "start") =>
          /\ ~isActive'
          /\ \A c \in Slots : cycles[c].pc = "idle" => cycles'[c].pc = "idle"
     /\ (~isActive /\ last'.c # 0 /\ last'.op # "start") =>
          LET p == last'.ref
              c == last'.c
          IN /\ last'.op = "probeFound" =>
                  /\ heap'[p].status = "found"
                  /\ ~heap[p].alertSent => cycles'[c].pc = "sms"
             /\ last'.op = "probeClear" =>
                  /\ heap'[p].status = "clear"
                  /\ ~heap'[p].alertSent
             /\ last'.op = "smsOk" => heap'[p].alertSent
             /\ last'.op = "probeFail" => heap'[p].status = "error"
             /\ last'.op \in {"probeFail", "smsFail", "delay"} =>
                  IF cycles[c].idx < Len(plates)
                  THEN /\ cycles'[c].pc = "probe"
                       /\ cycles'[c].plate = plates[cycles[c].idx + 1]
                  ELSE cycles'[c].pc = "idle"]_vars

\* A step in which an execution of performMonitoringCycle passes its
\* entry check.
CycleBegins == \E c \in Slots : cycles[c].pc = "idle" /\ cycles'[c].pc # "idle"

\* C15: lastCheckTime is written by every execution that passes the entry
\* check, at its start (the first plate is set to checking with the same
\* time), and by nothing else; it is the start time of the most recently
\* started cycle and never decreases, overlapping executions included.
C15_LastCheckTime ==
  [][/\ CycleBegins =>
          /\ lastCheckTime' = now
          /\ heap'[plates'[1]].status = "checking"
          /\ heap'[plates'[1]].lastChecked = lastCheckTime'
     /\ ~CycleBegins => lastCheckTime' = lastCheckTime
     /\ lastCheckTime' >= lastCheckTime]_vars

\* C15 witness: a cron tick has just begun a second execution while the
\* first is still awaiting, and lastCheckTime is the time of that tick.
C15_Witness ==
  /\ Cardinality(InFlight) = 2
  /\ last.op = "tick"
  /\ last.c # 0
  /\ now > 0
  /\ lastCheckTime = now

\* C16: within one execution of the cycle every plate that is in the
\* registry from the start of the cycle to its end is probed, whatever
\* plates are removed or added while the cycle is awaiting: when a cycle
\* ends, each plate of the registry that was created before the cycle
\* started has had a probe since the start request that began the cycle.
C16_EveryPlateProbed ==
  [][(last'.c # 0 /\ cycles'[last'.c].pc = "idle") =>
       \A r \in Range(plates') :
         heap'[r].id[1] < lastCheckTime' => obs'[r].res # "none"]_vars

\* C17: the inter-plate delay follows the processing of every plate,
\* whatever its outcome: after a probe failure or a notification failure
\* the cycle waits for the delay, and only the end of the delay starts the
\* next plate's probe.
C17_DelayAfterEveryPlate ==
  [][/\ last'.op \in {"probeClear", "smsOk", "probeFail", "smsFail"} =>
          cycles'[last'.c].pc = "delay"
     /\ (/\ last'.op \in {"probeFound", "probeClear", "smsOk", "probeFail",
                          "smsFail", "delay"}
         /\ cycles'[last'.c].pc = "probe") =>
          last'.op = "delay"]_vars

\* C18: a plate for which a notification has been sent, and whose probes
\* since then have only returned found=true or failed, with no new start
\* request, triggers no further notification: a found probe makes no
\* notification call, and a probe failure leaves alertSent true.
C18_NoRealertWithoutClear ==
  [][/\ (last'.op = "probeFound" /\ obs[last'.ref].alerted) =>
          cycles'[last'.c].pc = "delay"
     /\ (last'.op \in {"probeFound", "probeFail"} /\ obs[last'.ref].alerted
           /\ last'.ref \in DOMAIN heap') =>
          heap'[last'.ref].alertSent]_vars

\* C19: an accepted start request sets isActive and resets every plate to
\* pending with alertSent false before the initial cycle probes (the first
\* plate is then set to checking), and a cycle that was in flight at the
\* start request does not afterwards write a value computed before the
\* reset: a notification requested before the start does not set alertSent
\* once it succeeds.
C19_StartResets ==
  [][/\ (last'.op = "start" /\ last'.code = 200) =>
          /\ isActive'
          /\ \A i \in DOMAIN plates' :
               /\ ~heap'[plates'[i]].alertSent
               /\ heap'[plates'[i]].status =
                    IF i = 1 THEN "checking" ELSE "pending"
     /\ (last'.op = "smsOk" /\ obs[last'.ref].res = "none") =>
          ~heap'[last'.ref].alertSent]_vars

\* C20: every started cycle eventually completes, whatever probes and
\* notifications fail and whatever plates are added or removed meanwhile,
\* provided each probe, notification and timer eventually settles.
C20_CycleCompletes ==
  \A c \in Slots : (cycles[c].pc # "idle") ~> (cycles[c].pc = "idle")

\* C20 witness: a cycle has just ended on a probe failure, after a
\* notification had failed and with two plates in the registry.
C20_Witness ==
  /\ last.op = "probeFail"
  /\ last.c # 0
  /\ cycles[last.c].pc = "idle"
  /\ smsFailed
  /\ Len(plates) = 2

\* C21: plate ids are unique and immutable.  After any sequence of add and
\* bulk-add requests (two adds at the same clock reading included) no two
\* plates of the registry have the same id, and no request changes the id
\* of a plate, so that updatePlateStatus(plate.id, ...) finds the plate the
\* cycle is processing.
C21_UniqueImmutableIds ==
  [][/\ \A i, j \in DOMAIN plates' :
          i # j => heap'[plates'[i]].id # heap'[plates'[j]].id
     /\ \A r \in Range(plates) \cap Range(plates') :
          heap'[r].id = heap[r].id]_vars

\* The scheduled jobs that are live.
LiveJobs(js) == {j \in DOMAIN js : js[j].running}

\* C22: at most one scheduled job is live.  An accepted start request
\* leaves exactly one, the new one, with the current checkInterval; after
\* a stop request none is live and no tick begins a cycle until the next
\* start; a start request is rejected exactly when the registry is empty,
\* and then isActive, checkInterval and the scheduled job are unchanged.
C22_OneScheduledJob ==
  [][/\ Cardinality(LiveJobs(jobs')) <= 1
     /\ last'.op = "start" => (last'.code = 400 <=> Len(plates) = 0)
     /\ (last'.op = "start" /\ last'.code = 200) =>
          /\ isActive'
          /\ checkInterval' \in {checkInterval} \cup (IntervalInputs \ {0})
          /\ LiveJobs(jobs') = {cronJob'}
          /\ jobs'[cronJob'].interval = checkInterval'
     /\ last'.op = "stop" =>
          /\ ~isActive'
          /\ LiveJobs(jobs') = {}
     /\ (~isActive /\ last'.op # "start") =>
          /\ LiveJobs(jobs') = {}
          /\ ~CycleBegins
     /\ (last'.op = "start" /\ last'.code = 400) =>
          /\ isActive' = isActive
          /\ checkInterval' = checkInterval
          /\ jobs' = jobs
          /\ cronJob' = cronJob]_vars

\* C22 witness: a start request has just been rejected on a registry
\* emptied by removals, with monitoring active and the job scheduled by an
\* earlier start request, at the interval that one gave, still live.
C22_Witness ==
  /\ last.op = "start"
  /\ last.code = 400
  /\ isActive
  /\ LiveJobs(jobs) = {cronJob}
  /\ jobs[cronJob].interval = 5
  /\ checkInterval = 5

====
